---- MODULE Spec2Model ----
(***************************************************************************)
(* The dense Matrix of jonduesterhoeft/Algorithms as a state machine.      *)
(*                                                                         *)
(* The repository has two copies of Matrix: data_structures::matrix (the   *)
(* IsMatrix trait, "ds") and math::linear_algebra::matrix ("la").  Both    *)
(* keep rows, cols and a flat Vec; a Vec index i of the source is the      *)
(* sequence index i + 1 here.  A panic ends the run (phase "aborted") and  *)
(* leaves the matrix as the unwinding code left it.                        *)
(*                                                                         *)
(* Stack and Queue of data_structures are a second state machine,          *)
(* SpecContainers: one container, the calls of IsStack / IsQueue on it and *)
(* a log of the values that went in and came out.                          *)
(*                                                                         *)
(* The sorting functions of sort/ and sort.rs and the heaps of             *)
(* data_structures::heap are pure functions of an array.  SpecSort draws   *)
(* an array and applies one of them to it.                                 *)
(***************************************************************************)
EXTENDS Integers, Sequences, FiniteSets, TLC

\* Largest row and column count a constructor is called with.
MaxRows == 3
MaxCols == 3
\* How far the length of a producer or of a vector handed to a constructor
\* may miss rows * cols, either way.
Slack == 1
\* Most add calls in a run of a Stack or Queue, and the largest value added.
MaxAdds == 4
MaxValue == 2
\* Longest array handed to a sorting function or a heap, and its largest key.
MaxLen == 4
MaxKey == 3

VARIABLES
    impl,   \* which copy of Matrix the client uses: "ds" or "la"
    phase,  \* "start" (nothing built), "live", "aborted" (a panic unwound)
    m,      \* the Matrix: [rows, cols, data]
    last,   \* the most recent call: its name, arguments, result and the matrix before it
    prev,   \* the call before the most recent method call
    iter,   \* the row or column iterator the client holds: cursor and items yielded
    which,  \* the container the client holds: "stack" or "queue" ("none" in a matrix run)
    vec,    \* its Vec: field `stack` of Stack, field `queue` of Queue
    cphase, \* "live", "aborted" (a panic unwound), "idle" in a matrix run
    clast,  \* the most recent call on the container
    log,    \* every add with its value and every returned remove with its value, in order
    build,  \* "debug" (overflow checks on) or "release" (integers wrap)
    sphase, \* "input" (array drawn), "done", "aborted" (a panic unwound), "idle"
    arr,    \* the array: the input, then what the call left in it
    scall   \* the call made on the array

\* the variables of a matrix run and those of a container run
mvars == <<impl, phase, m, last, prev, iter>>

cvars == <<which, vec, cphase, clast, log>>

svars == <<build, sphase, arr, scall>>

vars == <<impl, phase, m, last, prev, iter, which, vec, cphase, clast, log, build, sphase, arr, scall>>

-----------------------------------------------------------------------------
\* Vec<T> and Option<T>

Min(x, y) == IF x < y THEN x ELSE y

\* data[i] of the source, for an index inside the vector
At(data, i) == data[i + 1]

\* whether data[i] is inside the vector (outside, indexing panics)
InVec(data, i) == i >= 0 /\ i < Len(data)

\* slice::swap as data[i] = data[j] alone, the other half of the exchange
\* missing: the lost element C30 rules out.
VecSwap_one_way(data, i, j) ==
    [data EXCEPT ![i + 1] = data[j + 1]]

\* slice::swap(i, j) for two indices inside the vector
VecSwap(data, i, j) ==
    [k \in 1..Len(data) |->
        IF k = i + 1 THEN data[j + 1] ELSE IF k = j + 1 THEN data[i + 1] ELSE data[k]]

Some(x) == [ret |-> "Some", out |-> <<x>>]
None == [ret |-> "None", out |-> <<>>]
Panic == [ret |-> "panic", out |-> <<>>]

-----------------------------------------------------------------------------
\* struct Matrix<T> { rows, cols, data }

Matrix(rows, cols, data) == [rows |-> rows, cols |-> cols, data |-> data]

NoMatrix == Matrix(0, 0, <<>>)

\* Outcome of a constructor or of a method that returns or changes a matrix.
Built(mat) == [ok |-> TRUE, m |-> mat]
Failed(mat) == [ok |-> FALSE, m |-> mat]

\* A producer: the unbounded ranges `0..` and `(0..).map(|_| zero())`, and the
\* finite range `0..len`.
Producer(gen, bounded, len) == [gen |-> gen, bounded |-> bounded, len |-> len]

Item(p, i) == IF p.gen = "count" THEN i ELSE 0

\* data.into_iter().take(k).collect()
Take(p, k) ==
    LET n == IF p.bounded THEN Min(p.len, k) ELSE k
    IN  [i \in 1..n |-> Item(p, i - 1)]

\* from_iter without the check of the collected length: the short matrix C14
\* rules out.
from_iter_unchecked_len(rows, cols, p) ==
    IF ~(rows > 0 /\ cols > 0) THEN Failed(NoMatrix)
    ELSE Built(Matrix(rows, cols, Take(p, rows * cols)))

from_iter(rows, cols, p) ==
    IF ~(rows > 0 /\ cols > 0) THEN Failed(NoMatrix)
    ELSE LET data == Take(p, rows * cols)
         IN  IF Len(data) # rows * cols THEN Failed(NoMatrix)
             ELSE Built(Matrix(rows, cols, data))

new(rows, cols) == from_iter(rows, cols, Producer("zero", FALSE, 0))

from_vec(rows, cols, data) ==
    IF ~(rows > 0 /\ cols > 0) THEN Failed(NoMatrix)
    ELSE Built(Matrix(rows, cols, data))

\* identity with the ones at i * size, down the first column of the flat
\* vector's rows: the misplaced diagonal C16 rules out.
identity_first_column(size) ==
    LET diag == {i * size : i \in 0..(size - 1)}
    IN  Built(Matrix(size, size, [k \in 1..(size * size) |-> IF (k - 1) \in diag THEN 1 ELSE 0]))

identity(size) ==
    LET zeros == [k \in 1..(size * size) |-> 0]
        diag == {i * (size + 1) : i \in 0..(size - 1)}
    IN  Built(Matrix(size, size, [k \in 1..(size * size) |-> IF (k - 1) \in diag THEN 1 ELSE zeros[k]]))

rows(mat) == mat.rows

cols(mat) == mat.cols

\* get with the stride of a column-major layout (row * rows instead of
\* row * cols): the addressing fault C6 rules out.
get_row_stride(mat, row, col) ==
    IF row < mat.rows /\ col < mat.cols
    THEN IF InVec(mat.data, col + row * mat.rows)
         THEN Some(At(mat.data, col + row * mat.rows))
         ELSE Panic
    ELSE None

\* get and get_mut: the bounds test, then an indexing of the Vec, which panics
\* when the flat index is outside it.
get(mat, row, col) ==
    IF row < mat.rows /\ col < mat.cols
    THEN IF InVec(mat.data, col + row * mat.cols)
         THEN Some(At(mat.data, col + row * mat.cols))
         ELSE Panic
    ELSE None

get_mut(mat, row, col) ==
    IF row < mat.rows /\ col < mat.cols
    THEN IF InVec(mat.data, col + row * mat.cols)
         THEN Some(col + row * mat.cols)
         ELSE Panic
    ELSE None

\* set inserting the value before the cell (Vec::insert) instead of
\* overwriting it: the change of shape C13 rules out.
set_inserting(mat, row, col, value) ==
    IF row < mat.rows /\ col < mat.cols /\ InVec(mat.data, col + row * mat.cols)
    THEN [ret |-> "Some", out |-> <<value>>,
          m |-> [mat EXCEPT !.data =
                    [k \in 1..(Len(mat.data) + 1) |->
                        IF k < col + row * mat.cols + 1 THEN mat.data[k]
                        ELSE IF k = col + row * mat.cols + 1 THEN value
                        ELSE mat.data[k - 1]]]]
    ELSE [ret |-> "None", out |-> <<>>, m |-> mat]

\* set writing at col + row * rows: the misplaced write C11 rules out.
set_row_stride(mat, row, col, value) ==
    IF row < mat.rows /\ col < mat.cols /\ InVec(mat.data, col + row * mat.rows)
    THEN [ret |-> "Some", out |-> <<value>>,
          m |-> [mat EXCEPT !.data[col + row * mat.rows + 1] = value]]
    ELSE [ret |-> "None", out |-> <<>>, m |-> mat]

\* set: get_mut, then the write through the reference
set(mat, row, col, value) ==
    LET cell == get_mut(mat, row, col)
    IN  IF cell.ret = "Some"
        THEN [ret |-> "Some", out |-> <<value>>,
              m |-> [mat EXCEPT !.data[cell.out[1] + 1] = value]]
        ELSE [ret |-> cell.ret, out |-> <<>>, m |-> mat]

\* set of linear_algebra: the same write, reported as a bool
la_set(mat, row, col, value) ==
    LET cell == get_mut(mat, row, col)
    IN  IF cell.ret = "Some"
        THEN [ret |-> "true", out |-> <<>>,
              m |-> [mat EXCEPT !.data[cell.out[1] + 1] = value]]
        ELSE [ret |-> IF cell.ret = "None" THEN "false" ELSE cell.ret, out |-> <<>>, m |-> mat]

\* The loop of swap_rows from column `col` on: one slice::swap per column,
\* which panics when either index is outside the vector.
RECURSIVE swap_rows_loop(_, _, _, _)
swap_rows_loop(mat, row_a, row_b, col) ==
    IF col >= mat.cols THEN Built(mat)
    ELSE LET i == row_a + col
             j == (row_b * mat.cols) + col
         IN  IF InVec(mat.data, i) /\ InVec(mat.data, j)
             THEN swap_rows_loop([mat EXCEPT !.data = VecSwap(mat.data, i, j)],
                                 row_a, row_b, col + 1)
             ELSE Failed(mat)

\* swap_rows without its first assert: the unchecked index C12 rules out.
swap_rows_unchecked_a(mat, row_a, row_b) ==
    IF ~(row_b < mat.rows) THEN Failed(mat)
    ELSE swap_rows_loop(mat, row_a, row_b, 0)

swap_rows(mat, row_a, row_b) ==
    IF ~(row_a < mat.rows) THEN Failed(mat)
    ELSE IF ~(row_b < mat.rows) THEN Failed(mat)
    ELSE swap_rows_loop(mat, row_a, row_b, 0)

\* The loop of swap_cols from row `row` on.
RECURSIVE swap_cols_loop(_, _, _, _)
swap_cols_loop(mat, col_a, col_b, row) ==
    IF row >= mat.rows THEN Built(mat)
    ELSE LET i == (row * mat.rows) + col_a
             j == (row * mat.rows) + col_b
         IN  IF InVec(mat.data, i) /\ InVec(mat.data, j)
             THEN swap_cols_loop([mat EXCEPT !.data = VecSwap(mat.data, i, j)],
                                 col_a, col_b, row + 1)
             ELSE Failed(mat)

swap_cols(mat, col_a, col_b) ==
    IF ~(col_a < mat.cols) THEN Failed(mat)
    ELSE IF ~(col_b < mat.cols) THEN Failed(mat)
    ELSE swap_cols_loop(mat, col_a, col_b, 0)

\* The visitors of the repository's tests and doc examples:
\* |n| sum += *n for apply, |n| *n *= 2 for apply_mut.
add_to_sum(sum, n) == sum + n

double(n) == n * 2

\* data.iter().for_each(|n| func(n)) from element k on: the elements handed to
\* func, in the order of the calls, and the visitor's sum after them
RECURSIVE for_each(_, _, _, _)
for_each(data, k, calls, sum) ==
    IF k > Len(data) THEN [calls |-> calls, sum |-> sum]
    ELSE for_each(data, k + 1, Append(calls, data[k]), add_to_sum(sum, data[k]))

\* apply visiting the elements last to first (data.iter().rev()): the order
\* C18 rules out.
apply_reversed(mat) ==
    for_each([k \in 1..Len(mat.data) |-> mat.data[Len(mat.data) + 1 - k]], 1, <<>>, 0)

apply(mat) ==
    for_each(mat.data, 1, <<>>, 0)

\* data.iter_mut().for_each(|n| func(n))
apply_mut(mat) == [mat EXCEPT !.data = [k \in 1..Len(mat.data) |-> double(mat.data[k])]]

-----------------------------------------------------------------------------
\* ColumnIterator and RowIterator: a cursor into the matrix

Cursor(row, col) == [current_row |-> row, current_col |-> col]

\* ColumnIterator::next: the item (an Option, or a panic of get) and the cursor after
ColumnIterator_next(mat, it) ==
    IF it.current_col >= mat.cols \/ it.current_row >= mat.rows
    THEN [item |-> None, it |-> it]
    ELSE [item |-> get(mat, it.current_row, it.current_col),
          it |-> [it EXCEPT !.current_row = @ + 1]]

\* RowIterator::next advancing current_row, as ColumnIterator does: the walk
\* down a column C17 rules out for get_row.
RowIterator_next_by_row(mat, it) ==
    IF it.current_col >= mat.cols \/ it.current_row >= mat.rows
    THEN [item |-> None, it |-> it]
    ELSE [item |-> get(mat, it.current_row, it.current_col),
          it |-> [it EXCEPT !.current_row = @ + 1]]

RowIterator_next(mat, it) ==
    IF it.current_col >= mat.cols \/ it.current_row >= mat.rows
    THEN [item |-> None, it |-> it]
    ELSE [item |-> get(mat, it.current_row, it.current_col),
          it |-> [it EXCEPT !.current_col = @ + 1]]

\* get_row asserting row <= rows: the off-by-one C9 rules out.
get_row_inclusive(mat, row) ==
    IF ~(row <= mat.rows) THEN [ret |-> "panic", it |-> Cursor(0, 0)]
    ELSE [ret |-> "Ok", it |-> Cursor(row, 0)]

\* get_row and get_col of data_structures: an assert, then the iterator
get_row(mat, row) ==
    IF ~(row < mat.rows) THEN [ret |-> "panic", it |-> Cursor(0, 0)]
    ELSE [ret |-> "Ok", it |-> Cursor(row, 0)]

get_col(mat, col) ==
    IF ~(col < mat.cols) THEN [ret |-> "panic", it |-> Cursor(0, 0)]
    ELSE [ret |-> "Ok", it |-> Cursor(0, col)]

\* get_row and get_col of linear_algebra: an Option of a lazy map over a range
la_get_row(mat, row) ==
    IF row < mat.rows THEN [ret |-> "Some", it |-> Cursor(row, 0)]
    ELSE [ret |-> "None", it |-> Cursor(0, 0)]

la_get_col(mat, col) ==
    IF col < mat.cols THEN [ret |-> "Some", it |-> Cursor(0, col)]
    ELSE [ret |-> "None", it |-> Cursor(0, 0)]

\* Option::unwrap
unwrap(opt) == IF opt.ret = "Some" THEN opt ELSE Panic

\* next of linear_algebra's get_row iterator, (0..cols).map(|col| get(row, col).unwrap())
la_row_next(mat, it) ==
    IF it.current_col < mat.cols
    THEN [item |-> unwrap(get(mat, it.current_row, it.current_col)),
          it |-> [it EXCEPT !.current_col = @ + 1]]
    ELSE [item |-> None, it |-> it]

\* next of linear_algebra's get_col iterator, (0..rows).map(|row| get(row, col).unwrap())
la_col_next(mat, it) ==
    IF it.current_row < mat.rows
    THEN [item |-> unwrap(get(mat, it.current_row, it.current_col)),
          it |-> [it EXCEPT !.current_row = @ + 1]]
    ELSE [item |-> None, it |-> it]

\* data.extend(column_iter): next until it yields None; [ok, data]
RECURSIVE extend(_, _, _)
extend(data, mat, it) ==
    LET step == ColumnIterator_next(mat, it)
    IN  IF step.item.ret = "None" THEN [ok |-> TRUE, data |-> data]
        ELSE IF step.item.ret = "panic" THEN [ok |-> FALSE, data |-> data]
        ELSE extend(Append(data, step.item.out[1]), mat, step.it)

\* The loop of transpose from column `col` on.
RECURSIVE transpose_loop(_, _, _)
transpose_loop(data, mat, col) ==
    IF col >= mat.cols THEN [ok |-> TRUE, data |-> data]
    ELSE LET column_iter == get_col(mat, col)
             more == extend(data, mat, column_iter.it)
         IN  IF column_iter.ret = "panic" \/ ~more.ok THEN [ok |-> FALSE, data |-> data]
             ELSE transpose_loop(more.data, mat, col + 1)

\* transpose that copies the backing vector in row order: the fault C7 rules out.
transpose_by_rows(mat) == Built(Matrix(mat.cols, mat.rows, mat.data))

\* transpose that fills column by column but keeps rows and cols as they
\* were: the fault C8 rules out.
transpose_same_shape(mat) ==
    LET filled == transpose_loop(<<>>, mat, 0)
    IN  IF filled.ok THEN Built(Matrix(mat.rows, mat.cols, filled.data))
        ELSE Failed(mat)

transpose(mat) ==
    LET filled == transpose_loop(<<>>, mat, 0)
    IN  IF filled.ok THEN Built(Matrix(mat.cols, mat.rows, filled.data))
        ELSE Failed(mat)

\* transpose of linear_algebra: for each column, a clone of every value of
\* get_col(col).unwrap(), which maps get(row, col).unwrap() over 0..rows
la_transpose(mat) ==
    LET cell(k) == get(mat, (k - 1) % mat.rows, (k - 1) \div mat.rows)
        n == mat.cols * mat.rows
    IN  IF mat.rows > 0 /\ \E k \in 1..n : cell(k).ret # "Some" THEN Failed(mat)
        ELSE Built(Matrix(mat.cols, mat.rows, [k \in 1..n |-> cell(k).out[1]]))

-----------------------------------------------------------------------------
\* The client: it picks one of the two copies of Matrix, builds a matrix with
\* one of the constructors and calls methods on it.  `last` and `prev` are a
\* window of two method calls; the run is followed while the window has room
\* and the last call changed the matrix (after a call that only reads, what
\* follows is what follows the state before it).

Impls == {"ds", "la"}

Constructors == {"from_iter", "new", "from_vec", "identity"}

Mutators == {"set", "get_mut", "swap_rows", "swap_cols", "transpose", "apply_mut"}

Call(op, a, b, arg, ret, out, before) ==
    [op |-> op, a |-> a, b |-> b, arg |-> arg, ret |-> ret, out |-> out, before |-> before]

NoCall == Call("none", 0, 0, <<>>, "none", <<>>, NoMatrix)

\* An iterator in the client's hands: which view it is, its cursor, the items
\* it has yielded and whether it has signalled the end (next returned None).
Iter(kind, it, items, ended) == [kind |-> kind, it |-> it, items |-> items, ended |-> ended]

NoIter == Iter("none", Cursor(0, 0), <<>>, FALSE)

\* Lengths of producers and vectors handed to a constructor for rows x cols.
Lengths(r, c) == {n \in (r * c - Slack)..(r * c + Slack) : n >= 0}

Producers(r, c) ==
    {Producer("count", FALSE, 0)} \cup {Producer("count", TRUE, n) : n \in Lengths(r, c)}

\* vec![0, 1, ..., n - 1]
Vec(n) == [k \in 1..n |-> k - 1]

\* A value written through set and get_mut that no producer above yields.
NewValue == (MaxRows + 1) * (MaxCols + 1) + Slack

Init ==
    /\ impl \in Impls
    /\ phase = "start"
    /\ m = NoMatrix
    /\ last = NoCall
    /\ prev = NoCall
    /\ iter = NoIter
    /\ which = "none"
    /\ vec = <<>>
    /\ cphase = "idle"
    /\ clast = NoCall
    /\ log = <<>>
    /\ build = "debug"
    /\ sphase = "idle"
    /\ arr = <<>>
    /\ scall = NoCall

\* The state after a constructor returned `res` or panicked.
Construct(op, a, b, arg, res) ==
    /\ phase' = IF res.ok THEN "live" ELSE "aborted"
    /\ m' = res.m
    /\ last' = Call(op, a, b, arg, IF res.ok THEN "Ok" ELSE "panic", <<>>, m)
    /\ UNCHANGED <<impl, prev, iter>>
    /\ UNCHANGED cvars
    /\ UNCHANGED svars

FromIter(r, c, p) ==
    /\ phase = "start"
    /\ Construct("from_iter", r, c, p, from_iter(r, c, p))

New(r, c) ==
    /\ phase = "start"
    /\ Construct("new", r, c, <<>>, new(r, c))

\* only data_structures has from_vec
FromVec(r, c, data) ==
    /\ phase = "start"
    /\ impl = "ds"
    /\ Construct("from_vec", r, c, data, from_vec(r, c, data))

Identity(size) ==
    /\ phase = "start"
    /\ Construct("identity", size, size, <<>>, identity(size))

Ready ==
    /\ phase = "live"
    /\ prev = NoCall
    /\ \/ last.op \in Constructors
       \/ last.op \in Mutators /\ last.ret \in {"Ok", "Some", "true"}

\* The state after a method call with result `ret`, value `out` and matrix `mat`.
Method(op, a, b, arg, ret, out, mat) ==
    /\ phase' = IF ret = "panic" THEN "aborted" ELSE "live"
    /\ m' = mat
    /\ prev' = IF last.op \in Constructors THEN NoCall ELSE last
    /\ last' = Call(op, a, b, arg, ret, out, m)
    /\ UNCHANGED impl
    /\ UNCHANGED cvars
    /\ UNCHANGED svars

\* The indices a method is called with on a dimension of n: every index inside
\* it and the first one outside.
Indices(n) == 0..n

MaxDim == IF MaxRows > MaxCols THEN MaxRows ELSE MaxCols

Get(row, col) ==
    /\ Ready
    /\ row \in Indices(m.rows) /\ col \in Indices(m.cols)
    /\ LET r == get(m, row, col)
       IN  Method("get", row, col, <<>>, r.ret, r.out, m)
    /\ UNCHANGED iter

\* if let Some(cell) = matrix.get_mut(row, col) { *cell = value }: `out` is the
\* element the reference points at when get_mut returns.
GetMut(row, col, value) ==
    /\ Ready
    /\ row \in Indices(m.rows) /\ col \in Indices(m.cols)
    /\ LET r == get_mut(m, row, col)
       IN  IF r.ret = "Some"
           THEN Method("get_mut", row, col, value, "Some", <<At(m.data, r.out[1])>>,
                       [m EXCEPT !.data[r.out[1] + 1] = value])
           ELSE Method("get_mut", row, col, value, r.ret, <<>>, m)
    /\ UNCHANGED iter

Set(row, col, value) ==
    /\ Ready
    /\ row \in Indices(m.rows) /\ col \in Indices(m.cols)
    /\ LET r == IF impl = "ds" THEN set(m, row, col, value) ELSE la_set(m, row, col, value)
       IN  Method("set", row, col, value, r.ret, r.out, r.m)
    /\ UNCHANGED iter

GetRow(row) ==
    /\ Ready
    /\ row \in Indices(m.rows)
    /\ LET r == IF impl = "ds" THEN get_row(m, row) ELSE la_get_row(m, row)
       IN  /\ Method("get_row", row, 0, <<>>, r.ret, <<>>, m)
           /\ iter' = IF r.ret \in {"Ok", "Some"} THEN Iter("row", r.it, <<>>, FALSE) ELSE NoIter

GetCol(col) ==
    /\ Ready
    /\ col \in Indices(m.cols)
    /\ LET r == IF impl = "ds" THEN get_col(m, col) ELSE la_get_col(m, col)
       IN  /\ Method("get_col", col, 0, <<>>, r.ret, <<>>, m)
           /\ iter' = IF r.ret \in {"Ok", "Some"} THEN Iter("col", r.it, <<>>, FALSE) ELSE NoIter

SwapRows(a, b) ==
    /\ Ready
    /\ a \in Indices(m.rows) /\ b \in Indices(m.rows)
    /\ LET r == swap_rows(m, a, b)
       IN  Method("swap_rows", a, b, <<>>, IF r.ok THEN "Ok" ELSE "panic", <<>>, r.m)
    /\ UNCHANGED iter

SwapCols(a, b) ==
    /\ Ready
    /\ a \in Indices(m.cols) /\ b \in Indices(m.cols)
    /\ LET r == swap_cols(m, a, b)
       IN  Method("swap_cols", a, b, <<>>, IF r.ok THEN "Ok" ELSE "panic", <<>>, r.m)
    /\ UNCHANGED iter

\* let m = m.transpose(): the client goes on with the transposed matrix
Transpose ==
    /\ Ready
    /\ LET r == IF impl = "ds" THEN transpose(m) ELSE la_transpose(m)
       IN  Method("transpose", 0, 0, <<>>, IF r.ok THEN "Ok" ELSE "panic", <<>>, r.m)
    /\ UNCHANGED iter

\* matrix.apply(|n| sum += *n): `out` is the elements the visitor was called
\* with, in order, and `arg` the sum it accumulated
Apply ==
    /\ Ready
    /\ LET r == apply(m)
       IN  Method("apply", 0, 0, r.sum, "Ok", r.calls, m)
    /\ UNCHANGED iter

\* matrix.apply_mut(|n| *n *= 2)
ApplyMut ==
    /\ Ready
    /\ Method("apply_mut", 0, 0, <<>>, "Ok", <<>>, apply_mut(m))
    /\ UNCHANGED iter

\* iterator.next() on the iterator that get_row or get_col returned
IterNext ==
    /\ phase = "live"
    /\ iter.kind # "none"
    /\ LET step == IF impl = "ds"
                   THEN IF iter.kind = "row" THEN RowIterator_next(m, iter.it)
                        ELSE ColumnIterator_next(m, iter.it)
                   ELSE IF iter.kind = "row" THEN la_row_next(m, iter.it)
                        ELSE la_col_next(m, iter.it)
       IN  /\ phase' = IF step.item.ret = "panic" THEN "aborted" ELSE "live"
           /\ iter' = Iter(iter.kind, step.it,
                           IF step.item.ret = "Some" THEN iter.items \o step.item.out
                           ELSE iter.items,
                           iter.ended \/ step.item.ret = "None")
    /\ UNCHANGED <<impl, m, last, prev>>
    /\ UNCHANGED cvars
    /\ UNCHANGED svars

Next ==
    \/ \E r \in 0..MaxRows, c \in 0..MaxCols : \E p \in Producers(r, c) : FromIter(r, c, p)
    \/ \E r \in 0..MaxRows, c \in 0..MaxCols : New(r, c)
    \/ \E r \in 0..MaxRows, c \in 0..MaxCols : \E n \in Lengths(r, c) : FromVec(r, c, Vec(n))
    \/ \E size \in 0..Min(MaxRows, MaxCols) : Identity(size)
    \/ \E row \in Indices(MaxDim), col \in Indices(MaxDim) : Get(row, col)
    \/ \E row \in Indices(MaxDim), col \in Indices(MaxDim) : GetMut(row, col, NewValue)
    \/ \E row \in Indices(MaxDim), col \in Indices(MaxDim) : Set(row, col, NewValue)
    \/ \E row \in Indices(MaxDim) : GetRow(row)
    \/ \E col \in Indices(MaxDim) : GetCol(col)
    \/ \E a \in Indices(MaxDim), b \in Indices(MaxDim) : SwapRows(a, b)
    \/ \E a \in Indices(MaxDim), b \in Indices(MaxDim) : SwapCols(a, b)
    \/ Transpose
    \/ Apply
    \/ ApplyMut
    \/ IterNext

Spec == Init /\ [][Next]_vars

-----------------------------------------------------------------------------
\* struct Stack<T> { stack: Vec<T> } and struct Queue<T> { queue: Vec<T> }.
\* Each method gives [ret, out, vec]: "Ok" with the value in `out`, or "panic".

\* Vec::push, Vec::pop and Vec::remove(0) on a vector that is not empty
push(v, value) == Append(v, value)

pop(v) == [value |-> v[Len(v)], vec |-> SubSeq(v, 1, Len(v) - 1)]

remove_0(v) == [value |-> v[1], vec |-> SubSeq(v, 2, Len(v))]

Returned(ret, out, v) == [ret |-> ret, out |-> out, vec |-> v]

Stack_new == <<>>

\* Ok(None)
Stack_add(stack, value) == Returned("Ok", <<>>, push(stack, value))

\* Stack::remove taking the element at index 0, as Queue does: the order C19
\* rules out.
Stack_remove_oldest(stack) ==
    IF stack # <<>> THEN Returned("Ok", <<remove_0(stack).value>>, remove_0(stack).vec)
    ELSE Returned("panic", <<>>, stack)

Stack_remove(stack) ==
    IF stack # <<>> THEN Returned("Ok", <<pop(stack).value>>, pop(stack).vec)
    ELSE Returned("panic", <<>>, stack)

\* stack.last() cloned
Stack_read(stack) ==
    IF stack # <<>> THEN Returned("Ok", <<stack[Len(stack)]>>, stack)
    ELSE Returned("panic", <<>>, stack)

Stack_size(stack) == Len(stack)

Queue_new == <<>>

Queue_add(queue, value) == Returned("Ok", <<>>, push(queue, value))

\* Queue::remove popping the last element, as Stack does: the order C20
\* rules out.
Queue_remove_newest(queue) ==
    IF queue # <<>> THEN Returned("Ok", <<pop(queue).value>>, pop(queue).vec)
    ELSE Returned("panic", <<>>, queue)

Queue_remove(queue) ==
    IF queue # <<>> THEN Returned("Ok", <<remove_0(queue).value>>, remove_0(queue).vec)
    ELSE Returned("panic", <<>>, queue)

\* queue.first() cloned
Queue_read(queue) ==
    IF queue # <<>> THEN Returned("Ok", <<queue[1]>>, queue)
    ELSE Returned("panic", <<>>, queue)

Queue_size(queue) == Len(queue)

-----------------------------------------------------------------------------
\* The client of a container: it makes a Stack or a Queue with new() and
\* calls add, remove, read and size on it until a call panics.

Containers == {"stack", "queue"}

Values == 1..MaxValue

\* An entry of the log: an add and the value added, or a remove and the value
\* it returned.
Event(op, value) == [op |-> op, value |-> value]

InitContainers ==
    /\ which \in Containers
    /\ vec = (IF which = "stack" THEN Stack_new ELSE Queue_new)
    /\ cphase = "live"
    /\ clast = NoCall
    /\ log = <<>>
    /\ impl = "ds"
    /\ phase = "start"
    /\ m = NoMatrix
    /\ last = NoCall
    /\ prev = NoCall
    /\ iter = NoIter
    /\ build = "debug"
    /\ sphase = "idle"
    /\ arr = <<>>
    /\ scall = NoCall

\* The state after a container call that returned `r`; the call record keeps
\* the vector before the call in `before`.
ContainerCall(op, value, r) ==
    /\ cphase' = IF r.ret = "panic" THEN "aborted" ELSE "live"
    /\ vec' = r.vec
    /\ clast' = Call(op, 0, 0, value, r.ret, r.out, vec)
    /\ UNCHANGED which
    /\ UNCHANGED mvars
    /\ UNCHANGED svars

Add(value) ==
    /\ cphase = "live"
    /\ Len(SelectSeq(log, LAMBDA e : e.op = "add")) < MaxAdds
    /\ ContainerCall("add", value, IF which = "stack" THEN Stack_add(vec, value) ELSE Queue_add(vec, value))
    /\ log' = Append(log, Event("add", value))

Remove ==
    /\ cphase = "live"
    /\ LET r == IF which = "stack" THEN Stack_remove(vec) ELSE Queue_remove(vec)
       IN  /\ ContainerCall("remove", 0, r)
           /\ log' = IF r.ret = "Ok" THEN Append(log, Event("remove", r.out[1])) ELSE log

Read ==
    /\ cphase = "live"
    /\ ContainerCall("read", 0, IF which = "stack" THEN Stack_read(vec) ELSE Queue_read(vec))
    /\ UNCHANGED log

Size ==
    /\ cphase = "live"
    /\ ContainerCall("size", 0, Returned("Ok", <<IF which = "stack" THEN Stack_size(vec) ELSE Queue_size(vec)>>, vec))
    /\ UNCHANGED log

NextContainers ==
    \/ \E value \in Values : Add(value)
    \/ Remove
    \/ Read
    \/ Size

SpecContainers == InitContainers /\ [][NextContainers]_vars

-----------------------------------------------------------------------------
\* sort/insertion.rs and sort/bubble.rs (sort.rs holds the same code).  A
\* loop is an operator that takes the loop variable and calls itself for the
\* next round.

\* What a call left behind: it returned (ok) or panicked, and the array.
Left(ok, data) == [ok |-> ok, data |-> data]

\* while j > 0 && data[j - 1] > data[j] (asc; < when not asc) { swap; j -= 1 }
RECURSIVE insertion_while(_, _, _)
insertion_while(data, j, asc) ==
    IF j > 0 /\ (IF asc THEN At(data, j - 1) > At(data, j) ELSE At(data, j - 1) < At(data, j))
    THEN insertion_while(VecSwap(data, j - 1, j), j - 1, asc)
    ELSE data

\* for i in 1..data.len()
RECURSIVE insertion_for(_, _, _)
insertion_for(data, i, asc) ==
    IF i >= Len(data) THEN data
    ELSE insertion_for(insertion_while(data, i, asc), i + 1, asc)

insertion_sort(data, asc) ==
    insertion_for(data, 1, asc)

\* for j in ((i + 1)..data.len()).rev(), from j down
RECURSIVE bubble_for_j(_, _, _, _)
bubble_for_j(data, i, j, asc) ==
    IF j < i + 1 THEN data
    ELSE bubble_for_j(IF asc /\ At(data, j) < At(data, j - 1) THEN VecSwap(data, j, j - 1)
                      ELSE IF ~asc /\ At(data, j) > At(data, j - 1) THEN VecSwap(data, j, j - 1)
                      ELSE data,
                      i, j - 1, asc)

\* for i in 0..data.len()
RECURSIVE bubble_for_i(_, _, _)
bubble_for_i(data, i, asc) ==
    IF i >= Len(data) THEN data
    ELSE bubble_for_i(bubble_for_j(data, i, Len(data) - 1, asc), i + 1, asc)

\* bubble_sort making the first pass only: the unfinished sort C26 rules out.
bubble_sort_one_pass(data, asc) ==
    IF Len(data) = 0 THEN data ELSE bubble_for_j(data, 0, Len(data) - 1, asc)

bubble_sort(data, asc) ==
    bubble_for_i(data, 0, asc)

-----------------------------------------------------------------------------
\* sort/merge.rs (sort.rs holds the same code)

\* data[k] = value
Put(data, k, value) == [data EXCEPT ![k + 1] = value]

\* data[a..=b].to_owned()
Slice(data, a, b) == SubSeq(data, a + 1, b + 1)

\* while j < right.len() { data[k] = right[j]; ... }
RECURSIVE merge_rest_of_right(_, _, _, _)
merge_rest_of_right(data, right, j, k) ==
    IF j < Len(right) THEN merge_rest_of_right(Put(data, k, At(right, j)), right, j + 1, k + 1)
    ELSE data

\* while i < left.len() { data[k] = left[i]; ... }, then the loop over right
RECURSIVE merge_rest_of_left(_, _, _, _, _, _)
merge_rest_of_left(data, left, right, i, j, k) ==
    IF i < Len(left) THEN merge_rest_of_left(Put(data, k, At(left, i)), left, right, i + 1, j, k + 1)
    ELSE merge_rest_of_right(data, right, j, k)

\* while i < left.len() && j < right.len() { ... }, then the two loops above
RECURSIVE merge_while(_, _, _, _, _, _, _)
merge_while(data, left, right, i, j, k, asc) ==
    IF i < Len(left) /\ j < Len(right)
    THEN IF asc /\ At(left, i) <= At(right, j)
         THEN merge_while(Put(data, k, At(left, i)), left, right, i + 1, j, k + 1, asc)
         ELSE IF ~asc /\ At(left, i) >= At(right, j)
         THEN merge_while(Put(data, k, At(left, i)), left, right, i + 1, j, k + 1, asc)
         ELSE merge_while(Put(data, k, At(right, j)), left, right, i, j + 1, k + 1, asc)
    ELSE merge_rest_of_left(data, left, right, i, j, k)

\* merge writing back the left copy and then the right copy without
\* comparing them: the unmerged halves C25 rules out.
merge_by_appending(data, p, q, r, asc) ==
    merge_rest_of_left(data, Slice(data, p, q), Slice(data, q + 1, r), 0, 0, p)

merge(data, p, q, r, asc) ==
    merge_while(data, Slice(data, p, q), Slice(data, q + 1, r), 0, 0, p, asc)

RECURSIVE merge_sort(_, _, _, _)
merge_sort(data, p, r, asc) ==
    IF p >= r THEN data
    ELSE LET q == (p + r) \div 2
         IN  merge(merge_sort(merge_sort(data, p, q, asc), q + 1, r, asc), p, q, r, asc)

-----------------------------------------------------------------------------
\* sort/quick.rs: indices are isize, cast to usize where they index.  An
\* index outside the array panics; each result carries ok = FALSE then.

\* The result of partition: whether it returned, the array, the pivot index.
Parted(ok, data, i) == [ok |-> ok, data |-> data, i |-> i]

\* for j in left..right, from j on
RECURSIVE partition_for(_, _, _, _, _)
partition_for(data, x, i, j, right) ==
    IF j >= right THEN Parted(TRUE, data, i)
    ELSE IF ~InVec(data, j) THEN Parted(FALSE, data, i)
    ELSE IF At(data, j) <= x
         THEN IF ~InVec(data, i) THEN Parted(FALSE, data, i)
              ELSE partition_for(VecSwap(data, i, j), x, i + 1, j + 1, right)
         ELSE partition_for(data, x, i, j + 1, right)

\* partition without the closing swap of the pivot into place: the
\* misplaced pivot C24 rules out.
partition_without_pivot_swap(data, left, right) ==
    IF ~InVec(data, right) THEN Parted(FALSE, data, left)
    ELSE partition_for(data, At(data, right), left, left, right)

partition(data, left, right) ==
    IF ~InVec(data, right) THEN Parted(FALSE, data, left)
    ELSE LET loop == partition_for(data, At(data, right), left, left, right)
         IN  IF ~loop.ok THEN loop
             ELSE IF ~InVec(loop.data, loop.i) THEN Parted(FALSE, loop.data, loop.i)
             ELSE Parted(TRUE, VecSwap(loop.data, loop.i, right), loop.i)

RECURSIVE _quick_sort(_, _, _)
_quick_sort(data, left, right) ==
    IF left < right
    THEN LET part == partition(data, left, right)
         IN  IF ~part.ok THEN Left(FALSE, part.data)
             ELSE LET lower == _quick_sort(part.data, left, part.i - 1)
                  IN  IF ~lower.ok THEN lower
                      ELSE _quick_sort(lower.data, part.i + 1, right)
    ELSE Left(TRUE, data)

quick_sort(data) ==
    _quick_sort(data, 0, Len(data) - 1)

-----------------------------------------------------------------------------
\* sort/heap.rs (sort.rs holds the same code)

left(i) == 2 * i + 1

right(i) == 2 * i + 2

RECURSIVE max_heapify(_, _, _)
max_heapify(data, i, heap_size) ==
    LET l == left(i)
        r == right(i)
        first == IF l < heap_size /\ At(data, l) > At(data, i) THEN l ELSE i
        largest == IF r < heap_size /\ At(data, r) > At(data, first) THEN r ELSE first
    IN  IF largest # i THEN max_heapify(VecSwap(data, i, largest), largest, heap_size)
        ELSE data

RECURSIVE min_heapify(_, _, _)
min_heapify(data, i, heap_size) ==
    LET l == left(i)
        r == right(i)
        first == IF l < heap_size /\ At(data, l) < At(data, i) THEN l ELSE i
        smallest == IF r < heap_size /\ At(data, r) < At(data, first) THEN r ELSE first
    IN  IF smallest # i THEN min_heapify(VecSwap(data, i, smallest), smallest, heap_size)
        ELSE data

\* for i in (0..=(heap_size / 2)).rev(), from i down
RECURSIVE build_heap_for(_, _, _)
build_heap_for(data, i, asc) ==
    IF i < 0 THEN data
    ELSE build_heap_for(IF asc THEN max_heapify(data, i, Len(data)) ELSE min_heapify(data, i, Len(data)),
                        i - 1, asc)

build_heap(data, asc) ==
    build_heap_for(data, Len(data) \div 2, asc)

\* for i in (1..heap_size).rev(), from i down; heap_size is i after the decrement
RECURSIVE heap_sort_for(_, _, _)
heap_sort_for(data, i, asc) ==
    IF i < 1 THEN data
    ELSE heap_sort_for(IF asc THEN max_heapify(VecSwap(data, 0, i), 0, i)
                       ELSE min_heapify(VecSwap(data, 0, i), 0, i),
                       i - 1, asc)

\* heap_sort without build_heap: the sift-downs on an array that is no heap
\* C23 rules out.
heap_sort_unbuilt(data, asc) ==
    heap_sort_for(data, Len(data) - 1, asc)

heap_sort(data, asc) ==
    heap_sort_for(build_heap(data, asc), Len(data) - 1, asc)

-----------------------------------------------------------------------------
\* data_structures/heap.rs: MinHeap { data } and MaxHeap { data }, the heap
\* size being data.len()

RECURSIVE MinHeap_min_heapify(_, _)
MinHeap_min_heapify(data, i) ==
    LET l == left(i)
        r == right(i)
        first == IF l < Len(data) /\ At(data, l) < At(data, i) THEN l ELSE i
        smallest == IF r < Len(data) /\ At(data, r) < At(data, first) THEN r ELSE first
    IN  IF smallest # i THEN MinHeap_min_heapify(VecSwap(data, i, smallest), smallest)
        ELSE data

\* for i in (0..=(heap_size / 2)).rev(), from i down
RECURSIVE MinHeap_build_heap_for(_, _)
MinHeap_build_heap_for(data, i) ==
    IF i < 0 THEN data
    ELSE MinHeap_build_heap_for(MinHeap_min_heapify(data, i), i - 1)

\* build_heap starting two below heap_size / 2, so that the last parent is
\* never sifted: the broken heap C22 rules out.
MinHeap_build_heap_late(data) ==
    MinHeap_build_heap_for(data, Len(data) \div 2 - 2)

MinHeap_build_heap(data) ==
    MinHeap_build_heap_for(data, Len(data) \div 2)

MinHeap_from_data(data) == MinHeap_build_heap(data)

RECURSIVE MaxHeap_max_heapify(_, _)
MaxHeap_max_heapify(data, i) ==
    LET l == left(i)
        r == right(i)
        first == IF l < Len(data) /\ At(data, l) > At(data, i) THEN l ELSE i
        largest == IF r < Len(data) /\ At(data, r) > At(data, first) THEN r ELSE first
    IN  IF largest # i THEN MaxHeap_max_heapify(VecSwap(data, i, largest), largest)
        ELSE data

RECURSIVE MaxHeap_build_heap_for(_, _)
MaxHeap_build_heap_for(data, i) ==
    IF i < 0 THEN data
    ELSE MaxHeap_build_heap_for(MaxHeap_max_heapify(data, i), i - 1)

MaxHeap_build_heap(data) ==
    MaxHeap_build_heap_for(data, Len(data) \div 2)

MaxHeap_from_data(data) == MaxHeap_build_heap(data)

\* BinaryHeap::len
BinaryHeap_len(heap) == Len(heap)

-----------------------------------------------------------------------------
\* sort.rs, quick_sort(data, p, r) and partition: indices are usize, i is
\* isize.  Unsigned arithmetic that leaves 0..usize::MAX panics in a debug
\* build and wraps in a release build.

\* usize::MAX of a target with 16-bit pointers, the narrowest Rust has; on a
\* wider target the wrapped index is as far outside every array.
usize_MAX == 2 ^ 16 - 1

\* a + b and a - b on usize: [ok, value]
usize_add(a, b, profile) ==
    IF a + b <= usize_MAX THEN [ok |-> TRUE, value |-> a + b]
    ELSE [ok |-> profile = "release", value |-> (a + b) % (usize_MAX + 1)]

usize_sub(a, b, profile) ==
    IF a >= b THEN [ok |-> TRUE, value |-> a - b]
    ELSE [ok |-> profile = "release", value |-> (a - b) % (usize_MAX + 1)]

\* i as usize, for an isize i
as_usize(i) == i % (usize_MAX + 1)

\* for j in *p..=(*r - 1), from j on, with `last` = *r - 1: [ok, data, i]
RECURSIVE sort_partition_for(_, _, _, _, _)
sort_partition_for(data, x, i, j, last_j) ==
    IF j > last_j THEN Parted(TRUE, data, i)
    ELSE IF ~InVec(data, j) THEN Parted(FALSE, data, i)
    ELSE IF At(data, j) <= x
         THEN IF ~InVec(data, as_usize(i + 1)) THEN Parted(FALSE, data, i)
              ELSE sort_partition_for(VecSwap(data, as_usize(i + 1), j), x, i + 1, j + 1, last_j)
         ELSE sort_partition_for(data, x, i, j + 1, last_j)

sort_partition(data, p, r, profile) ==
    IF ~InVec(data, r) THEN Parted(FALSE, data, 0)
    ELSE LET last_j == usize_sub(r, 1, profile)
         IN  IF ~last_j.ok THEN Parted(FALSE, data, 0)
             ELSE LET loop == sort_partition_for(data, At(data, r), p - 1, p, last_j.value)
                      q == usize_add(as_usize(loop.i), 1, profile)
                  IN  IF ~loop.ok THEN loop
                      ELSE IF ~q.ok THEN Parted(FALSE, loop.data, 0)
                      ELSE IF ~InVec(loop.data, q.value) THEN Parted(FALSE, loop.data, 0)
                      ELSE Parted(TRUE, VecSwap(loop.data, q.value, r), q.value)

RECURSIVE sort_quick_sort(_, _, _, _)
sort_quick_sort(data, p, r, profile) ==
    IF p < r
    THEN LET part == sort_partition(data, p, r, profile)
             below == usize_sub(part.i, 1, profile)
             above == usize_add(part.i, 1, profile)
         IN  IF ~part.ok THEN Left(FALSE, part.data)
             ELSE IF ~below.ok THEN Left(FALSE, part.data)
             ELSE LET lower == sort_quick_sort(part.data, p, below.value, profile)
                  IN  IF ~lower.ok THEN lower
                      ELSE IF ~above.ok THEN Left(FALSE, lower.data)
                      ELSE sort_quick_sort(lower.data, above.value, r, profile)
    ELSE Left(TRUE, data)

-----------------------------------------------------------------------------
\* The caller of a sorting function: it has an array and makes one call.

Keys == 1..MaxKey

Arrays == UNION {[1..n -> Keys] : n \in 0..MaxLen}

Builds == {"debug", "release"}

InitSort ==
    /\ build \in Builds
    /\ sphase = "input"
    /\ arr \in Arrays
    /\ scall = NoCall
    /\ impl = "ds"
    /\ phase = "start"
    /\ m = NoMatrix
    /\ last = NoCall
    /\ prev = NoCall
    /\ iter = NoIter
    /\ which = "none"
    /\ vec = <<>>
    /\ cphase = "idle"
    /\ clast = NoCall
    /\ log = <<>>

\* The state after the call op(arr, p, r, asc) that left `res`; the call
\* record keeps the array before the call in `before`.
SortCall(op, p, r, asc, res) ==
    /\ sphase' = IF res.ok THEN "done" ELSE "aborted"
    /\ arr' = res.data
    /\ scall' = Call(op, p, r, asc, IF res.ok THEN "Ok" ELSE "panic", <<>>, arr)
    /\ UNCHANGED build
    /\ UNCHANGED mvars
    /\ UNCHANGED cvars

InsertionSort(asc) ==
    /\ sphase = "input"
    /\ SortCall("insertion_sort", 0, 0, asc, Left(TRUE, insertion_sort(arr, asc)))

BubbleSort(asc) ==
    /\ sphase = "input"
    /\ SortCall("bubble_sort", 0, 0, asc, Left(TRUE, bubble_sort(arr, asc)))

\* merge_sort(data, p, r, asc) on a range inside the array, p <= r < data.len()
MergeSort(p, r, asc) ==
    /\ sphase = "input"
    /\ p <= r
    /\ r < Len(arr)
    /\ SortCall("merge_sort", p, r, asc, Left(TRUE, merge_sort(arr, p, r, asc)))

HeapSort(asc) ==
    /\ sphase = "input"
    /\ SortCall("heap_sort", 0, 0, asc, Left(TRUE, heap_sort(arr, asc)))

\* MinHeap::from_data(data) (min) or MaxHeap::from_data(data); the array is
\* then the heap's data
FromData(min) ==
    /\ sphase = "input"
    /\ SortCall("from_data", 0, 0, min, Left(TRUE, IF min THEN MinHeap_from_data(arr) ELSE MaxHeap_from_data(arr)))

\* quick_sort(data) of sort/quick.rs
QuickSort ==
    /\ sphase = "input"
    /\ SortCall("quick_sort", 0, 0, TRUE, quick_sort(arr))

\* quick_sort(data, 0, data.len() - 1) of sort.rs on an array that is not empty
SortQuickSort ==
    /\ sphase = "input"
    /\ Len(arr) > 0
    /\ SortCall("sort::quick_sort", 0, Len(arr) - 1, TRUE, sort_quick_sort(arr, 0, Len(arr) - 1, build))

NextSort ==
    \/ \E asc \in BOOLEAN : InsertionSort(asc)
    \/ \E asc \in BOOLEAN : BubbleSort(asc)
    \/ \E asc \in BOOLEAN : HeapSort(asc)
    \/ \E min \in BOOLEAN : FromData(min)
    \/ QuickSort
    \/ SortQuickSort
    \/ \E p \in 0..(MaxLen - 1), r \in 0..(MaxLen - 1), asc \in BOOLEAN : MergeSort(p, r, asc)

SpecSort == InitSort /\ [][NextSort]_vars

-----------------------------------------------------------------------------
\* Properties

\* The backing vector holds exactly rows * cols elements.
WellFormed(mat) == Len(mat.data) = mat.rows * mat.cols

\* Every cell that get can address is inside the backing vector.
Populated(mat) == Len(mat.data) >= mat.rows * mat.cols

RowsOf(mat) == 0..(mat.rows - 1)

ColsOf(mat) == 0..(mat.cols - 1)

\* The index x with a and b exchanged.
Exchanged(x, a, b) == IF x = a THEN b ELSE IF x = b THEN a ELSE x

\* Every get(i, j) of `mat` is the element that get(i, j) of `old` was.
SameCells(mat, old) ==
    /\ mat.rows = old.rows
    /\ mat.cols = old.cols
    /\ \A i \in RowsOf(old), j \in ColsOf(old) :
          get(mat, i, j).ret = "Some" /\ get(mat, i, j) = get(old, i, j)

\* C1: after swap_rows(a, b) with a, b < rows on a rows x cols matrix, row a
\* is the old row b, row b is the old row a, column by column, and every
\* other row is as it was.
C1_SwapRowsExchangesRows ==
    (/\ last.op = "swap_rows"
     /\ WellFormed(last.before)
     /\ last.a < last.before.rows
     /\ last.b < last.before.rows)
    => /\ last.ret = "Ok"
       /\ \A r \in RowsOf(last.before), c \in ColsOf(last.before) :
             get(m, r, c) = get(last.before, Exchanged(r, last.a, last.b), c)

\* C2: after swap_cols(a, b) with a, b < cols on a matrix of any shape,
\* column a is the old column b, column b is the old column a, row by row,
\* and every other column is as it was.
C2_SwapColsExchangesCols ==
    (/\ last.op = "swap_cols"
     /\ WellFormed(last.before)
     /\ last.a < last.before.cols
     /\ last.b < last.before.cols)
    => /\ last.ret = "Ok"
       /\ \A r \in RowsOf(last.before), c \in ColsOf(last.before) :
             get(m, r, c) = get(last.before, r, Exchanged(c, last.a, last.b))

\* C3: swap_rows(a, b) called twice in a row with a, b < rows restores every
\* cell of the matrix.
C3_SwapRowsTwiceRestores ==
    (/\ last.op = "swap_rows"
     /\ prev.op = "swap_rows"
     /\ last.a = prev.a
     /\ last.b = prev.b
     /\ WellFormed(prev.before)
     /\ last.a < prev.before.rows
     /\ last.b < prev.before.rows)
    => /\ last.ret = "Ok"
       /\ SameCells(m, prev.before)

\* C4: swap_cols(a, b) called twice in a row with a, b < cols restores every
\* cell of the matrix, whatever its shape.
C4_SwapColsTwiceRestores ==
    (/\ last.op = "swap_cols"
     /\ prev.op = "swap_cols"
     /\ last.a = prev.a
     /\ last.b = prev.b
     /\ WellFormed(prev.before)
     /\ last.a < prev.before.cols
     /\ last.b < prev.before.cols)
    => /\ last.ret = "Ok"
       /\ SameCells(m, prev.before)

\* C5: every matrix a constructor returns has a backing vector of exactly
\* rows * cols elements; from_vec panics when data.len() is not rows * cols.
C5_ConstructedIsFull ==
    last.op \in Constructors
    => /\ phase = "live" => WellFormed(m)
       /\ (last.op = "from_vec" /\ Len(last.arg) # last.a * last.b) => last.ret = "panic"

\* The producer yields 0, 1, 2, ... for at least k values.
Counts(p, k) == p.gen = "count" /\ (p.bounded => p.len >= k)

\* C6: from_iter(rows, cols, 0..) with rows, cols > 0 returns a rows x cols
\* matrix whose get(i, j) is i * cols + j for every i < rows, j < cols.
C6_FromIterRowMajor ==
    (/\ last.op = "from_iter"
     /\ last.a > 0
     /\ last.b > 0
     /\ Counts(last.arg, last.a * last.b))
    => /\ last.ret = "Ok"
       /\ rows(m) = last.a
       /\ cols(m) = last.b
       /\ \A i \in 0..(last.a - 1), j \in 0..(last.b - 1) :
             get(m, i, j) = Some(i * last.b + j)

\* A non-square matrix built from the unbounded producer 0, 1, 2, ...
C6_Witness ==
    /\ last.op = "from_iter"
    /\ last.ret = "Ok"
    /\ ~last.arg.bounded
    /\ last.arg.gen = "count"
    /\ m.rows = 2
    /\ m.cols = 3

RowOrColOutOfBounds ==
    \/ last.op = "get_row" /\ last.a >= last.before.rows
    \/ last.op = "get_col" /\ last.a >= last.before.cols

\* C9 as claimed: get_row(r) with r >= rows and get_col(c) with c >= cols
\* yield the absent result and never abort, in both copies of Matrix.
C9_OutOfBoundsViewAbsent ==
    RowOrColOutOfBounds => last.ret = "None" /\ phase = "live"

\* C9 as amended: get_row(r) with r >= rows and get_col(c) with c >= cols
\* yield None in linear_algebra's Matrix and panic in data_structures'
\* Matrix; neither returns an iterator and the matrix is as it was.
C9_OutOfBoundsViewAbsentOrPanics ==
    RowOrColOutOfBounds
    => /\ impl = "la" => last.ret = "None" /\ phase = "live"
       /\ impl = "ds" => last.ret = "panic" /\ phase = "aborted"
       /\ m = last.before

\* get_row(rows) on a well-formed matrix of data_structures.
C9_Witness ==
    /\ last.op = "get_row"
    /\ impl = "ds"
    /\ WellFormed(last.before)
    /\ last.before.rows > 0
    /\ last.a = last.before.rows
    /\ phase = "aborted"

\* C10: get and get_mut return the element at (row, col) when row < rows and
\* col < cols and None otherwise, and never panic on a matrix that a public
\* constructor returned.
C10_GetInBoundsOrNone ==
    last.op \in {"get", "get_mut"}
    => /\ last.ret # "panic"
       /\ phase = "live"
       /\ IF last.a < last.before.rows /\ last.b < last.before.cols
          THEN /\ last.ret = "Some"
               /\ last.out = <<At(last.before.data, last.a * last.before.cols + last.b)>>
          ELSE last.ret = "None"

C12_SwapOutOfBoundsPanicsUntouched ==
    (\/ last.op = "swap_rows" /\ (last.a >= last.before.rows \/ last.b >= last.before.rows)
     \/ last.op = "swap_cols" /\ (last.a >= last.before.cols \/ last.b >= last.before.cols))
    => /\ last.ret = "panic"
       /\ phase = "aborted"
       /\ m = last.before

\* swap_rows(rows, 0) on a matrix of distinct values with more than one row.
C12_Witness ==
    /\ last.op = "swap_rows"
    /\ last.before.rows = 2
    /\ last.before.cols = 2
    /\ last.before.data = Vec(4)
    /\ last.a = 2
    /\ last.b = 0
    /\ phase = "aborted"

\* The calls that change a matrix in place.
InPlace == {"set", "get_mut", "swap_rows", "swap_cols", "apply_mut"}

\* `mat` has the shape of `old`: rows, cols and the length of the backing vector.
SameShape(mat, old) ==
    /\ rows(mat) = rows(old)
    /\ cols(mat) = cols(old)
    /\ Len(mat.data) = Len(old.data)

\* get reads cell (row, col) from flat index row * cols + col.
RowMajor(mat) ==
    \A r \in RowsOf(mat), c \in ColsOf(mat) :
        InVec(mat.data, r * mat.cols + c) => get(mat, r, c) = Some(At(mat.data, r * mat.cols + c))

\* C13: set, a write through get_mut, swap_rows, swap_cols and apply_mut keep
\* the shape of the matrix, one after another too: rows and cols are those
\* before the calls, the backing vector keeps its length (rows * cols when it
\* had it), and get reads (row, col) from flat index row * cols + col.
C13_MutationKeepsShape ==
    last.op \in InPlace
    => /\ SameShape(m, last.before)
       /\ WellFormed(last.before) => WellFormed(m)
       /\ RowMajor(m)
       /\ prev.op \in InPlace
          => /\ SameShape(m, prev.before)
             /\ WellFormed(prev.before) => WellFormed(m)

\* apply_mut after swap_rows on a 2 x 3 matrix.
C13_Witness ==
    /\ last.op = "apply_mut"
    /\ prev.op = "swap_rows"
    /\ prev.ret = "Ok"
    /\ prev.before.rows = 2
    /\ prev.before.cols = 3
    /\ prev.before.data = Vec(6)
    /\ WellFormed(m)

\* The producer of a from_iter call yields fewer than rows * cols elements.
TooFew(call) == call.arg.bounded /\ call.arg.len < call.a * call.b

\* C14: from_iter panics, and leaves no matrix, when rows or cols is zero or
\* the producer yields fewer than rows * cols elements; otherwise it stores
\* exactly the first rows * cols elements of the producer, in order.
C14_FromIterPanicsOrTakesPrefix ==
    last.op = "from_iter"
    => IF last.a = 0 \/ last.b = 0 \/ TooFew(last)
       THEN /\ last.ret = "panic"
            /\ phase = "aborted"
            /\ m = NoMatrix
       ELSE /\ last.ret = "Ok"
            /\ phase = "live"
            /\ m.rows = last.a
            /\ m.cols = last.b
            /\ Len(m.data) = last.a * last.b
            /\ \A k \in 1..Len(m.data) : m.data[k] = Item(last.arg, k - 1)

\* A 2 x 3 matrix from a producer of seven elements.
C14_Witness ==
    /\ last.op = "from_iter"
    /\ last.a = 2
    /\ last.b = 3
    /\ last.arg.bounded
    /\ last.arg.len = 7
    /\ m.data = Vec(6)

\* C15 as stated: identity(0) panics and never returns a 0 x 0 matrix.
C15_IdentityZeroPanics ==
    last.op = "identity" /\ last.a = 0
    => /\ last.ret = "panic"
       /\ phase = "aborted"

\* C16: identity(n) with n > 0 is n x n, and get reads 1 at (i, i) and 0 at
\* (i, j) with i # j.
C16_IdentityOnesOnDiagonal ==
    last.op = "identity" /\ last.a > 0
    => /\ last.ret = "Ok"
       /\ rows(m) = last.a
       /\ cols(m) = last.a
       /\ \A i \in 0..(last.a - 1), j \in 0..(last.a - 1) :
              get(m, i, j) = Some(IF i = j THEN 1 ELSE 0)

\* identity(3).
C16_Witness ==
    /\ last.op = "identity"
    /\ last.a = 3
    /\ get(m, 2, 2) = Some(1)
    /\ get(m, 2, 1) = Some(0)

\* What the next call to next() on the client's iterator returns.
NextItem ==
    IF impl = "ds"
    THEN IF iter.kind = "row" THEN RowIterator_next(m, iter.it) ELSE ColumnIterator_next(m, iter.it)
    ELSE IF iter.kind = "row" THEN la_row_next(m, iter.it) ELSE la_col_next(m, iter.it)

\* The cell of the k-th item (k from 0) of the view taken by `call`.
ViewCell(call, k) == IF call.op = "get_row" THEN get(m, call.a, k) ELSE get(m, k, call.a)

C18_ApplyVisitsRowMajor ==
    last.op = "apply"
    => /\ last.ret = "Ok"
       /\ m = last.before
       /\ Len(last.out) = Len(m.data)
       /\ WellFormed(m) => Len(last.out) = m.rows * m.cols
       /\ \A r \in RowsOf(m), c \in ColsOf(m) :
              InVec(m.data, r * m.cols + c) => Some(At(last.out, r * m.cols + c)) = get(m, r, c)
       /\ m.data = Vec(m.rows * m.cols)
          => last.arg = (m.rows * m.cols * (m.rows * m.cols - 1)) \div 2

\* apply with the summing visitor on the 2 x 3 matrix of 0..5.
C18_Witness ==
    /\ last.op = "apply"
    /\ m.rows = 2
    /\ m.cols = 3
    /\ m.data = Vec(6)
    /\ last.out = Vec(6)
    /\ last.arg = 15

-----------------------------------------------------------------------------
\* Properties of Stack and Queue, stated over the log

Largest(S) == CHOOSE x \in S : \A y \in S : y <= x

Smallest(S) == CHOOSE x \in S : \A y \in S : x <= y

\* The adds (as positions in the log `l`) whose element is still in the
\* container when every remove took the most recently added element still
\* there (lifo) or the oldest one (not lifo).
RECURSIVE Pending(_, _)
Pending(l, lifo) ==
    IF l = <<>> THEN {}
    ELSE LET before == Pending(SubSeq(l, 1, Len(l) - 1), lifo)
         IN  IF l[Len(l)].op = "add" THEN before \cup {Len(l)}
             ELSE IF before = {} THEN {}
             ELSE before \ {IF lifo THEN Largest(before) ELSE Smallest(before)}

\* The element remove and read are to give after the log `l`.
Due(l, lifo) ==
    IF lifo THEN l[Largest(Pending(l, lifo))].value ELSE l[Smallest(Pending(l, lifo))].value

AddsIn(l) == SelectSeq(l, LAMBDA e : e.op = "add")

RemovesIn(l) == SelectSeq(l, LAMBDA e : e.op = "remove")

\* Every remove in the log returned the element due at that point.
RemovesTakeDue(lifo) ==
    \A k \in 1..Len(log) :
        log[k].op = "remove"
        => /\ Pending(SubSeq(log, 1, k - 1), lifo) # {}
           /\ log[k].value = Due(SubSeq(log, 1, k - 1), lifo)

\* The container holds the pending elements, oldest first.
HoldsPending(lifo) ==
    /\ Len(vec) = Cardinality(Pending(log, lifo))
    /\ \A i \in 1..Len(vec) :
           \E k \in Pending(log, lifo) :
               /\ Cardinality({j \in Pending(log, lifo) : j <= k}) = i
               /\ vec[i] = log[k].value

\* read on a container that is not empty returned the element due and left
\* the container as it was; a remove now would return that element.
ReadPeeks(lifo, removed) ==
    (clast.op = "read" /\ clast.before # <<>>)
    => /\ clast.ret = "Ok"
       /\ clast.out = <<Due(log, lifo)>>
       /\ vec = clast.before
       /\ removed.ret = "Ok"
       /\ removed.out = clast.out

C20_QueueIsFifo ==
    which = "queue"
    => /\ RemovesTakeDue(FALSE)
       /\ HoldsPending(FALSE)
       /\ ReadPeeks(FALSE, Queue_remove(vec))
       /\ (clast.op = "remove" /\ clast.before # <<>>) => clast.ret = "Ok"
       /\ Len(RemovesIn(log)) <= Len(AddsIn(log))
       /\ \A k \in 1..Len(RemovesIn(log)) : RemovesIn(log)[k].value = AddsIn(log)[k].value
       /\ vec = [i \in 1..(Len(AddsIn(log)) - Len(RemovesIn(log))) |->
                    AddsIn(log)[Len(RemovesIn(log)) + i].value]

\* add 1, add 2, remove gives 1, add 1, remove gives 2, read gives 1.
C20_Witness ==
    /\ which = "queue"
    /\ log = <<Event("add", 1), Event("add", 2), Event("remove", 1), Event("add", 1), Event("remove", 2)>>
    /\ clast.op = "read"
    /\ clast.out = <<1>>
    /\ vec = <<1>>

\* C21 as stated: remove and read on an empty Stack or Queue return Err to
\* the caller, do not panic, and leave the container empty.
C21_EmptyReturnsErr ==
    (clast.op \in {"remove", "read"} /\ clast.before = <<>>)
    => /\ clast.ret = "Err"
       /\ cphase = "live"
       /\ vec = <<>>

-----------------------------------------------------------------------------
\* Properties of swap_cols and swap_rows: completion and the swap with itself

\* C28 as stated: swap_cols(a, b) with a < cols and b < cols returns, on a
\* matrix of any shape; it does not panic after having swapped elements.
C28_SwapColsCompletes ==
    (/\ last.op = "swap_cols"
     /\ WellFormed(last.before)
     /\ last.a < last.before.cols
     /\ last.b < last.before.cols)
    => /\ last.ret = "Ok"
       /\ phase = "live"

\* C29 as stated: swap_rows(a, a) with a < rows and swap_cols(a, a) with
\* a < cols leave every cell of the matrix as it was.
C29_SwapWithSelfIsNoOp ==
    (/\ last.op \in {"swap_rows", "swap_cols"}
     /\ WellFormed(last.before)
     /\ last.a = last.b
     /\ last.a < (IF last.op = "swap_rows" THEN last.before.rows ELSE last.before.cols))
    => /\ last.ret = "Ok"
       /\ m = last.before

-----------------------------------------------------------------------------
\* Properties of the sorting functions and the heaps

NonDecreasing(data) == \A k \in 1..(Len(data) - 1) : data[k] <= data[k + 1]

NonIncreasing(data) == \A k \in 1..(Len(data) - 1) : data[k] >= data[k + 1]

InOrder(data, asc) == IF asc THEN NonDecreasing(data) ELSE NonIncreasing(data)

\* C26: insertion_sort(data, asc) and bubble_sort(data, asc) return with the
\* array in non-decreasing order when asc is true and in non-increasing
\* order when asc is false.
C26_InsertionAndBubbleSort ==
    scall.op \in {"insertion_sort", "bubble_sort"}
    => /\ scall.ret = "Ok"
       /\ InOrder(arr, scall.arg)

\* bubble_sort(data, false) on [1, 3, 2, 3].
C26_Witness ==
    /\ scall.op = "bubble_sort"
    /\ scall.arg = FALSE
    /\ scall.before = <<1, 3, 2, 3>>
    /\ arr = <<3, 3, 2, 1>>

\* C25: merge_sort(data, p, r, asc) with p <= r < data.len() returns with
\* data[p..=r] in non-decreasing order when asc is true and in
\* non-increasing order when asc is false, and with every element outside
\* p..=r as it was.
C25_MergeSortSortsRange ==
    scall.op = "merge_sort"
    => /\ scall.ret = "Ok"
       /\ Len(arr) = Len(scall.before)
       /\ InOrder(Slice(arr, scall.a, scall.b), scall.arg)
       /\ \A k \in 0..(Len(arr) - 1) :
              (k < scall.a \/ k > scall.b) => At(arr, k) = At(scall.before, k)

\* merge_sort(data, 1, 3, true) on [3, 2, 1, 1].
C25_Witness ==
    /\ scall.op = "merge_sort"
    /\ scall.a = 1
    /\ scall.b = 3
    /\ scall.arg = TRUE
    /\ scall.before = <<3, 2, 1, 1>>
    /\ arr = <<3, 1, 1, 2>>

\* The parent of the node at index i >= 1.
ParentOf(i) == (i - 1) \div 2

\* C22: MinHeap::from_data leaves data[(i - 1) / 2] <= data[i] for every
\* index i >= 1, MaxHeap::from_data leaves data[(i - 1) / 2] >= data[i] for
\* every i >= 1, and the heap has the length of the input.
C22_FromDataIsHeap ==
    scall.op = "from_data"
    => /\ scall.ret = "Ok"
       /\ BinaryHeap_len(arr) = Len(scall.before)
       /\ \A i \in 1..(Len(arr) - 1) :
              IF scall.arg THEN At(arr, ParentOf(i)) <= At(arr, i)
              ELSE At(arr, ParentOf(i)) >= At(arr, i)

\* MinHeap::from_data(vec![3, 2, 2, 1]).
C22_Witness ==
    /\ scall.op = "from_data"
    /\ scall.arg = TRUE
    /\ scall.before = <<3, 2, 2, 1>>
    /\ arr = <<1, 2, 2, 3>>

\* C23: heap_sort(data, asc) returns with the array in non-decreasing order
\* when asc is true and in non-increasing order when asc is false.
C23_HeapSortSorts ==
    scall.op = "heap_sort"
    => /\ scall.ret = "Ok"
       /\ InOrder(arr, scall.arg)

\* heap_sort(data, true) on [2, 3, 1, 2].
C23_Witness ==
    /\ scall.op = "heap_sort"
    /\ scall.arg = TRUE
    /\ scall.before = <<2, 3, 1, 2>>
    /\ arr = <<1, 2, 2, 3>>

\* C24: quick_sort(data) of sort/quick.rs returns, no index of partition
\* having left 0..len, with the array in non-decreasing order.
C24_QuickSortSorts ==
    scall.op = "quick_sort"
    => /\ scall.ret = "Ok"
       /\ sphase = "done"
       /\ NonDecreasing(arr)

\* quick_sort on [3, 2, 3, 1], whose pivot is the smallest element.
C24_Witness ==
    /\ scall.op = "quick_sort"
    /\ scall.before = <<3, 2, 3, 1>>
    /\ arr = <<1, 2, 3, 3>>

\* C27 as stated: quick_sort(data, 0, data.len() - 1) of sort.rs on an array
\* that is not empty returns with the array in non-decreasing order, also
\* when the pivot is the smallest element and partition returns 0.
C27_SortQuickSortSorts ==
    scall.op = "sort::quick_sort"
    => /\ scall.ret = "Ok"
       /\ NonDecreasing(arr)

\* How often `value` occurs in `data`.
Occurrences(data, value) == Cardinality({k \in 1..Len(data) : data[k] = value})

\* `data` holds the values of `old`, each as often as `old` does.
PermutationOf(data, old) ==
    /\ Len(data) = Len(old)
    /\ \A k \in 1..Len(old) : Occurrences(data, old[k]) = Occurrences(old, old[k])

\* The sorting functions of sort/.
Sorts == {"insertion_sort", "bubble_sort", "merge_sort", "heap_sort", "quick_sort"}

\* C30: insertion_sort, bubble_sort, merge_sort, heap_sort and quick_sort
\* return on every array and leave a permutation of it: the same length and
\* every value as often as before the call.
C30_SortsPermute ==
    scall.op \in Sorts
    => /\ scall.ret = "Ok"
       /\ sphase = "done"
       /\ PermutationOf(arr, scall.before)

\* merge_sort over the full range of [3, 1, 3, 2].
C30_Witness ==
    /\ scall.op = "merge_sort"
    /\ scall.a = 0
    /\ scall.b = 3
    /\ scall.arg = TRUE
    /\ scall.before = <<3, 1, 3, 2>>
    /\ arr = <<1, 2, 3, 3>>

====
